---- MODULE Spec2Model ----
(***************************************************************************)
(* A model of scipy_dataclassfitparams: the dependency graph of fitting    *)
(* fields (_depgraph.py) and the fit specification generated for a         *)
(* dataclass (_fit_spec.py, _fields.py), with the cache of the generated    *)
(* specifications (_spec_registry.py).                                     *)
(*                                                                         *)
(* Indices are 0-based, as in the source.  A python exception is modelled  *)
(* as the "err" component of the result of the operation that raises it.   *)
(***************************************************************************)
EXTENDS Integers, Sequences, FiniteSets, TLC

(***************************************************************************)
(* Bounds of the model.                                                    *)
(***************************************************************************)
\* The largest number of dependencies recorded in a DepGraph.
MaxDeps == 4

\* The names of the fields, in declaration order: a graph is constructed
\* over the first n of them, for every n.
AllNames == <<"a", "b", "c", "d">>

\* A name that is never a field of the graph.
UnknownName == "zz"

VARIABLES
    dg,      \* the DepGraph instance: N, graph, fields, key_map, num_deps
    ret,     \* the last call on the graph and its outcome
    clss,    \* a dataclass: the sequence of its fields, in declaration order
    fitspec, \* the outcome of FitSpec.generate(clss)
    res,     \* the last call on the generated FitSpec and its outcome
    bfield,  \* a BoundedField: the outcome of its construction
    bret,    \* the last call on the BoundedField and its outcome
    calls,   \* per thread: the frame of its running call on the FitSpec
    registry, \* _REGISTRY: the stored specification of each cached type
    rret,    \* the last call on the registry and its outcome
    hist     \* history of the registry since the last clear_cache

vars == <<dg, ret, clss, fitspec, res, bfield, bret, calls, registry, rret, hist>>

(***************************************************************************)
(* Helpers.                                                                *)
(***************************************************************************)
Range(s) == {s[k] : k \in DOMAIN s}

\* The position (1-based) of the element x in the sequence s, 0 if absent.
PosOf(s, x) ==
    IF \E k \in DOMAIN s : s[k] = x
    THEN CHOOSE k \in DOMAIN s : s[k] = x /\ \A m \in 1..(k-1) : s[m] # x
    ELSE 0

\* scipy's INFINITY: the dense representation of "no edge".
INFINITY == 1000000

(***************************************************************************)
(* DepGraph.__init__                                                       *)
(***************************************************************************)
DepGraphNew(fs) ==
    LET n == Len(fs) IN
    [ N        |-> n,
      graph    |-> [i \in 0..(n-1) |-> [j \in 0..(n-1) |-> 0]],
      key_map  |-> [s \in Range(fs) |-> PosOf(fs, s) - 1],
      fields   |-> fs,
      num_deps |-> 0 ]

(***************************************************************************)
(* DepGraph.add_dependency: the graph after the call, the returned value   *)
(* and the exception raised ("none" when the call returns).                *)
(***************************************************************************)
AddResult(self, value, err) == [dg |-> self, value |-> value, err |-> err]

\* Mutant: the edge is written before the reverse edge is looked at.
add_dependency_write_first(self, which, source) ==
    IF which = source THEN AddResult(self, FALSE, "SelfDependency")
    ELSE IF which \notin DOMAIN self.key_map \/ source \notin DOMAIN self.key_map
    THEN AddResult(self, FALSE, "KeyError")
    ELSE
      LET wi == self.key_map[which]
          si == self.key_map[source]
          g  == self.graph
          change == g[wi][si] # -1
          written == [self EXCEPT !.graph[wi][si] = -1,
                                  !.num_deps = 1 + self.num_deps]
      IN IF change
         THEN IF g[si][wi] # 0
              THEN AddResult(written, FALSE, "CircularDependency")
              ELSE AddResult(written, TRUE, "none")
         ELSE AddResult(self, FALSE, "none")

\* Mutant: the self-dependency test is made after the lookup of the names
\* and after the edge test, so that it is an ordinary edge test.
add_dependency_no_self_check(self, which, source) ==
    IF which \notin DOMAIN self.key_map \/ source \notin DOMAIN self.key_map
    THEN AddResult(self, FALSE, "KeyError")
    ELSE
      LET wi == self.key_map[which]
          si == self.key_map[source]
          g  == self.graph
          change == g[wi][si] # -1
      IN IF change
         THEN IF g[si][wi] # 0
              THEN AddResult(self, FALSE, "CircularDependency")
              ELSE AddResult([self EXCEPT !.graph[wi][si] = -1,
                                          !.num_deps = 1 + self.num_deps],
                             TRUE, "none")
         ELSE AddResult(self, FALSE, "none")

\* Mutant: the counter is incremented on every call that returns.
add_dependency_always_counts(self, which, source) ==
    IF which = source THEN AddResult(self, FALSE, "SelfDependency")
    ELSE IF which \notin DOMAIN self.key_map \/ source \notin DOMAIN self.key_map
    THEN AddResult(self, FALSE, "KeyError")
    ELSE
      LET wi == self.key_map[which]
          si == self.key_map[source]
          g  == self.graph
          change == g[wi][si] # -1
      IN IF change
         THEN IF g[si][wi] # 0
              THEN AddResult(self, FALSE, "CircularDependency")
              ELSE AddResult([self EXCEPT !.graph[wi][si] = -1,
                                          !.num_deps = 1 + self.num_deps],
                             TRUE, "none")
         ELSE AddResult([self EXCEPT !.num_deps = 1 + self.num_deps],
                        FALSE, "none")

\* Mutant: a call that repeats a recorded dependency writes its entry anew,
\* one lower.
add_dependency_duplicate_rewrites(self, which, source) ==
    IF which = source THEN AddResult(self, FALSE, "SelfDependency")
    ELSE IF which \notin DOMAIN self.key_map \/ source \notin DOMAIN self.key_map
    THEN AddResult(self, FALSE, "KeyError")
    ELSE
      LET wi == self.key_map[which]
          si == self.key_map[source]
          g  == self.graph
          change == g[wi][si] = 0
      IN IF change
         THEN IF g[si][wi] # 0
              THEN AddResult(self, FALSE, "CircularDependency")
              ELSE AddResult([self EXCEPT !.graph[wi][si] = -1,
                                          !.num_deps = 1 + self.num_deps],
                             TRUE, "none")
         ELSE AddResult([self EXCEPT !.graph[wi][si] = -2], FALSE, "none")

\* Mutant: the reverse edge is not looked at.
add_dependency_no_reverse_check(self, which, source) ==
    IF which = source THEN AddResult(self, FALSE, "SelfDependency")
    ELSE IF which \notin DOMAIN self.key_map \/ source \notin DOMAIN self.key_map
    THEN AddResult(self, FALSE, "KeyError")
    ELSE
      LET wi == self.key_map[which]
          si == self.key_map[source]
          g  == self.graph
          change == g[wi][si] # -1
      IN IF change
         THEN AddResult([self EXCEPT !.graph[wi][si] = -1,
                                     !.num_deps = 1 + self.num_deps],
                        TRUE, "none")
         ELSE AddResult(self, FALSE, "none")

\* Mutant: the counter is incremented before the reverse edge is looked at.
add_dependency_counts_rejected(self, which, source) ==
    IF which = source THEN AddResult(self, FALSE, "SelfDependency")
    ELSE IF which \notin DOMAIN self.key_map \/ source \notin DOMAIN self.key_map
    THEN AddResult(self, FALSE, "KeyError")
    ELSE
      LET wi == self.key_map[which]
          si == self.key_map[source]
          g  == self.graph
          change == g[wi][si] # -1
          counted == [self EXCEPT !.num_deps = 1 + self.num_deps]
      IN IF change
         THEN IF g[si][wi] # 0
              THEN AddResult(counted, FALSE, "CircularDependency")
              ELSE AddResult([counted EXCEPT !.graph[wi][si] = -1], TRUE, "none")
         ELSE AddResult(self, FALSE, "none")

add_dependency(self, which, source) ==
    IF which = source THEN AddResult(self, FALSE, "SelfDependency")
    ELSE IF which \notin DOMAIN self.key_map \/ source \notin DOMAIN self.key_map
    THEN AddResult(self, FALSE, "KeyError")
    ELSE
      LET wi == self.key_map[which]
          si == self.key_map[source]
          g  == self.graph
          change == g[wi][si] # -1
      IN IF change
         THEN IF g[si][wi] # 0
              THEN AddResult(self, FALSE, "CircularDependency")
              ELSE AddResult([self EXCEPT !.graph[wi][si] = -1,
                                          !.num_deps = 1 + self.num_deps],
                             TRUE, "none")
         ELSE AddResult(self, FALSE, "none")

(***************************************************************************)
(* DepGraph.dependency_count                                               *)
(***************************************************************************)
dependency_count(self) == self.num_deps

(***************************************************************************)
(* scipy.sparse.csgraph.floyd_warshall on the matrix of the graph: the     *)
(* stored entries (-1) are the edge weights, the other entries are no      *)
(* edge; the diagonal is set to 0; then the triple loop over k, i, j       *)
(* updates the distances in place, d_ik being read once per (k, i).        *)
(***************************************************************************)
DenseGraph(g, n, directed) ==
    [i \in 0..(n-1) |-> [j \in 0..(n-1) |->
        IF i = j THEN 0
        ELSE IF g[i][j] # 0 THEN g[i][j]
        ELSE IF (~directed) /\ g[j][i] # 0 THEN g[j][i]
        ELSE INFINITY]]

RECURSIVE FWInner(_, _, _, _, _, _)
FWInner(dist, n, k, i, d_ik, j) ==
    IF j >= n THEN dist
    ELSE LET d_kj  == dist[k][j]
             d_ijk == IF d_kj = INFINITY THEN INFINITY ELSE d_ik + d_kj
             nd    == IF d_ijk < dist[i][j]
                      THEN [dist EXCEPT ![i][j] = d_ijk] ELSE dist
         IN FWInner(nd, n, k, i, d_ik, j + 1)

RECURSIVE FWLoop(_, _, _, _)
FWLoop(dist, n, k, i) ==
    IF k >= n THEN dist
    ELSE IF i >= n THEN FWLoop(dist, n, k + 1, 0)
    ELSE LET d_ik == dist[i][k] IN
         IF d_ik = INFINITY THEN FWLoop(dist, n, k, i + 1)
         ELSE FWLoop(FWInner(dist, n, k, i, d_ik, 0), n, k, i + 1)

floyd_warshall(g, n, directed) == FWLoop(DenseGraph(g, n, directed), n, 0, 0)

NegativeCycle(dist, n) == \E i \in 0..(n-1) : dist[i][i] < 0

(***************************************************************************)
(* DepGraph.has_closed_cycles                                              *)
(***************************************************************************)
\* Mutant: the graph is handed to floyd_warshall as an undirected one.
has_closed_cycles_undirected(self) ==
    NegativeCycle(floyd_warshall(self.graph, self.N, FALSE), self.N)

has_closed_cycles(self) ==
    NegativeCycle(floyd_warshall(self.graph, self.N, TRUE), self.N)

(***************************************************************************)
(* DepGraph.get_init_order                                                 *)
(***************************************************************************)
RECURSIVE RowSumFrom(_, _, _)
RowSumFrom(row, n, j) == IF j >= n THEN 0 ELSE row[j] + RowSumFrom(row, n, j + 1)

\* Mutant: the matrix is summed along its columns, which counts the fields
\* that depend on each field.
RowSums_axis0(g, n) ==
    [i \in 0..(n-1) |-> RowSumFrom([k \in 0..(n-1) |-> g[k][i]], n, 0)]

\* g.sum(axis=1): minus the number of fields each field depends on.
RowSums(g, n) == [i \in 0..(n-1) |-> RowSumFrom(g[i], n, 0)]

\* Mutant: the set of indices is scanned from the last declared field.
SetIterFirst_descending(S) == CHOOSE x \in S : \A y \in S : y <= x

\* The first element a "for" loop over the set S of indices yields.  CPython
\* iterates a set of small non-negative integers in ascending order: every
\* index hashes to itself and the table is larger than N.
SetIterFirst(S) == CHOOSE x \in S : \A y \in S : x <= y

\* Mutant: the matrix is read transposed.
Dependents_transposed(g, idx_in_tree, idx) == {i \in idx_in_tree : g[idx][i] # 0}

\* The fields of the tree whose counter the inner loop increments when idx
\* is removed: those which depend on idx.
Dependents(g, idx_in_tree, idx) == {i \in idx_in_tree : g[i][idx] # 0}

\* Mutant: the loop removes the edges to the resolved field from the
\* matrix of the graph itself, next to counting them.
RECURSIVE InitOrderLoop_in_place(_, _, _, _, _)
InitOrderLoop_in_place(g, idx_in_tree, idx_resolved, nnum_deps, passes) ==
    IF idx_in_tree = {}
    THEN [idx_resolved |-> idx_resolved, passes |-> passes, stuck |-> FALSE,
          g |-> g]
    ELSE LET free == {idx \in idx_in_tree : nnum_deps[idx] = 0} IN
         IF free = {}
         THEN [idx_resolved |-> idx_resolved, passes |-> passes, stuck |-> TRUE,
               g |-> g]
         ELSE LET idx == SetIterFirst(free)
                  inc == Dependents(g, idx_in_tree, idx)
                  nn  == [i \in DOMAIN nnum_deps |->
                             IF i \in inc THEN nnum_deps[i] + 1 ELSE nnum_deps[i]]
                  g2  == [i \in DOMAIN g |-> [j \in DOMAIN g[i] |->
                             IF i \in inc /\ j = idx THEN 0 ELSE g[i][j]]]
              IN InitOrderLoop_in_place(g2, idx_in_tree \ {idx},
                                        Append(idx_resolved, idx), nn, passes + 1)

\* The while loop.  A pass that finds no index with counter 0 leaves the
\* tree as it is, and so does every later pass: "stuck" stands for that
\* endless loop.  g is self._graph itself, not a copy: the matrix the loop
\* leaves is the matrix of the graph after the call.
RECURSIVE InitOrderLoop(_, _, _, _, _)
InitOrderLoop(g, idx_in_tree, idx_resolved, nnum_deps, passes) ==
    IF idx_in_tree = {}
    THEN [idx_resolved |-> idx_resolved, passes |-> passes, stuck |-> FALSE,
          g |-> g]
    ELSE LET free == {idx \in idx_in_tree : nnum_deps[idx] = 0} IN
         IF free = {}
         THEN [idx_resolved |-> idx_resolved, passes |-> passes, stuck |-> TRUE,
               g |-> g]
         ELSE LET idx == SetIterFirst(free)
                  inc == Dependents(g, idx_in_tree, idx)
                  nn  == [i \in DOMAIN nnum_deps |->
                             IF i \in inc THEN nnum_deps[i] + 1 ELSE nnum_deps[i]]
              IN InitOrderLoop(g, idx_in_tree \ {idx},
                               Append(idx_resolved, idx), nn, passes + 1)

\* Mutant: the order is computed without looking for closed cycles first.
get_init_order_no_cycle_check(self) ==
    LET r == InitOrderLoop(self.graph, 0..(self.N - 1), <<>>,
                           RowSums(self.graph, self.N), 0)
    IN IF r.stuck
       THEN [order |-> <<>>, err |-> "NonTermination", passes |-> r.passes,
             graph |-> r.g]
       ELSE [order  |-> [k \in 1..Len(r.idx_resolved) |->
                            self.fields[r.idx_resolved[k] + 1]],
             err    |-> "none",
             passes |-> r.passes,
             graph  |-> r.g]

\* Mutant: the resolved indices are read from the last one to the first.
get_init_order_reversed(self) ==
    IF has_closed_cycles(self)
    THEN [order |-> <<>>, err |-> "ClosedLoops", passes |-> 0,
          graph |-> self.graph]
    ELSE LET r == InitOrderLoop(self.graph, 0..(self.N - 1), <<>>,
                                RowSums(self.graph, self.N), 0)
             n == Len(r.idx_resolved)
         IN IF r.stuck
            THEN [order |-> <<>>, err |-> "NonTermination", passes |-> r.passes,
                  graph |-> r.g]
            ELSE [order  |-> [k \in 1..n |->
                                 self.fields[r.idx_resolved[n + 1 - k] + 1]],
                  err    |-> "none",
                  passes |-> r.passes,
                  graph  |-> r.g]

get_init_order(self) ==
    IF has_closed_cycles(self)
    THEN [order |-> <<>>, err |-> "ClosedLoops", passes |-> 0,
          graph |-> self.graph]
    ELSE LET r == InitOrderLoop(self.graph, 0..(self.N - 1), <<>>,
                                RowSums(self.graph, self.N), 0)
         IN IF r.stuck
            THEN [order |-> <<>>, err |-> "NonTermination", passes |-> r.passes,
                  graph |-> r.g]
            ELSE [order  |-> [k \in 1..Len(r.idx_resolved) |->
                                 self.fields[r.idx_resolved[k] + 1]],
                  err    |-> "none",
                  passes |-> r.passes,
                  graph  |-> r.g]

(***************************************************************************)
(* The state machine of one DepGraph: construction, then any sequence of   *)
(* calls.                                                                  *)
(***************************************************************************)
NoCall ==
    [op |-> "none", value |-> FALSE, count |-> 0, order |-> <<>>,
     err |-> "none", passes |-> 0]

\* No dataclass takes part in the state machine of a single DepGraph.
NoClass == <<>>
NoFitSpec == [generated |-> FALSE, err |-> "none"]
NoFitCall == [op |-> "none", err |-> "none"]

\* No BoundedField takes part in it either.
NoBoundedField == [constructed |-> FALSE, err |-> "none", min |-> 0, max |-> 0]
NoFieldCall ==
    [op |-> "none", has_arg |-> FALSE, arg |-> 0, value |-> 0, flag |-> FALSE]

\* The threads that call the methods of one FitSpec; none of them has a
\* call running.
Threads == {1, 2}
IdleFrame == [op |-> "none", pc |-> "idle"]
NoCalls == [th \in Threads |-> IdleFrame]

\* The registry is empty and was never called.
EmptyRegistry == [x \in {} |-> 0]
NoRegistryCall == [op |-> "none", err |-> "none"]
NoHistory == [runs |-> EmptyRegistry, succeeded |-> {}, origin |-> EmptyRegistry]

Init ==
    /\ \E n \in 0..Len(AllNames) : dg = DepGraphNew(SubSeq(AllNames, 1, n))
    /\ ret = NoCall
    /\ clss = NoClass
    /\ fitspec = NoFitSpec
    /\ res = NoFitCall
    /\ bfield = NoBoundedField
    /\ bret = NoFieldCall
    /\ calls = NoCalls
    /\ registry = EmptyRegistry
    /\ rret = NoRegistryCall
    /\ hist = NoHistory

CallNames == Range(dg.fields) \cup {UnknownName}

AddDependency(which, source) ==
    LET r == add_dependency(dg, which, source) IN
    /\ r.dg.num_deps <= MaxDeps
    /\ dg' = r.dg
    /\ ret' = [NoCall EXCEPT !.op = "add_dependency", !.value = r.value,
                             !.err = r.err]
    /\ UNCHANGED <<clss, fitspec, res, bfield, bret, calls, registry, rret, hist>>

DependencyCount ==
    /\ ret' = [NoCall EXCEPT !.op = "dependency_count",
                             !.count = dependency_count(dg)]
    /\ UNCHANGED <<dg, clss, fitspec, res, bfield, bret, calls, registry, rret, hist>>

HasClosedCycles ==
    /\ ret' = [NoCall EXCEPT !.op = "has_closed_cycles",
                             !.value = has_closed_cycles(dg)]
    /\ UNCHANGED <<dg, clss, fitspec, res, bfield, bret, calls, registry, rret, hist>>

GetInitOrder ==
    LET r == get_init_order(dg) IN
    /\ dg' = [dg EXCEPT !.graph = r.graph]
    /\ ret' = [NoCall EXCEPT !.op = "get_init_order", !.order = r.order,
                             !.err = r.err, !.passes = r.passes]
    /\ UNCHANGED <<clss, fitspec, res, bfield, bret, calls, registry, rret, hist>>

Next ==
    \/ \E which \in CallNames, source \in CallNames : AddDependency(which, source)
    \/ DependencyCount
    \/ HasClosedCycles
    \/ GetInitOrder

Spec == Init /\ [][Next]_vars

(***************************************************************************)
(* Notions the properties of the graph are stated with.  They are defined  *)
(* on the recorded edges alone, not on the computations of DepGraph.       *)
(***************************************************************************)
\* The recorded edges: <<w, s>> when the field w depends on the field s.
Edges(self) ==
    {e \in Range(self.fields) \X Range(self.fields) :
        self.graph[self.key_map[e[1]]][self.key_map[e[2]]] # 0}

\* The pairs <<x, y>> with a path of one or more edges of E from x to y.
RECURSIVE Closure(_, _)
Closure(E, R) ==
    LET R3 == R \cup {<<q[1][1], q[2][2]>> : q \in {q \in R \X E : q[1][2] = q[2][1]}}
    IN IF R3 = R THEN R ELSE Closure(E, R3)

HasDirectedCycle(self) ==
    \E p \in Closure(Edges(self), Edges(self)) : p[1] = p[2]

IsPermutationOf(order, fs) ==
    /\ Len(order) = Len(fs)
    /\ Range(order) = Range(fs)

\* Every field stands after every field it depends on.
RespectsDependencies(order, self) ==
    \A e \in Edges(self) :
        /\ PosOf(order, e[1]) > 0
        /\ PosOf(order, e[2]) > 0
        /\ PosOf(order, e[2]) < PosOf(order, e[1])

\* The order obtained by removing, again and again, the first remaining
\* field in declaration order that depends on no remaining field.
RECURSIVE GreedyOrder(_, _, _)
GreedyOrder(self, remaining, acc) ==
    LET free == {f \in remaining :
                    \A x \in remaining : <<f, x>> \notin Edges(self)}
    IN IF remaining = {} \/ free = {} THEN acc
       ELSE LET f == CHOOSE f \in free :
                        \A h \in free : PosOf(self.fields, f) <= PosOf(self.fields, h)
            IN GreedyOrder(self, remaining \ {f}, Append(acc, f))

ExampleEdges == {<<"a", "b">>, <<"b", "d">>, <<"c", "a">>, <<"c", "d">>}

(***************************************************************************)
(* Properties of DepGraph.                                                 *)
(***************************************************************************)
\* C1: on every acyclic graph get_init_order returns a permutation of the
\* fields of the graph in which every field stands after every field it
\* depends on.
C1_InitOrderTopological ==
    (ret.op = "get_init_order" /\ ~HasDirectedCycle(dg)) =>
        /\ ret.err = "none"
        /\ IsPermutationOf(ret.order, dg.fields)
        /\ RespectsDependencies(ret.order, dg)

\* An order was returned for a graph with three or more dependencies, and
\* it is not the declaration order.
C1_Witness ==
    /\ ret.op = "get_init_order"
    /\ ret.err = "none"
    /\ dg.num_deps >= 3
    /\ ret.order # dg.fields

\* C6: on every acyclic graph get_init_order returns the order of the
\* greedy removal in declaration order; for a, b, c, d with a->b, b->d,
\* c->a, c->d it is d, b, a, c.
C6_InitOrderGreedy ==
    (ret.op = "get_init_order" /\ ~HasDirectedCycle(dg)) =>
        /\ ret.err = "none"
        /\ ret.order = GreedyOrder(dg, Range(dg.fields), <<>>)
        /\ (dg.fields = <<"a", "b", "c", "d">> /\ Edges(dg) = ExampleEdges)
              => ret.order = <<"d", "b", "a", "c">>

\* get_init_order was called on the graph of the example.
C6_Witness ==
    /\ ret.op = "get_init_order"
    /\ dg.fields = <<"a", "b", "c", "d">>
    /\ Edges(dg) = ExampleEdges

\* C7: add_dependency(b, a) with the edge (a, b) recorded raises the
\* circular-dependency error and changes neither the edges nor
\* dependency_count.
C7_ReverseEdgeRejected ==
    [][\A a \in Range(dg.fields), b \in Range(dg.fields) :
          (<<a, b>> \in Edges(dg) /\ AddDependency(b, a)) =>
              /\ ret'.err = "CircularDependency"
              /\ Edges(dg') = Edges(dg)
              /\ dependency_count(dg') = dependency_count(dg)]_vars

\* A call was rejected because of the reverse edge.
C7_Witness ==
    /\ ret.op = "add_dependency"
    /\ ret.err = "CircularDependency"

\* C8: add_dependency(x, x) raises the self-dependency error for every
\* name x, a field of the graph or not, in every state, and changes neither
\* the edges nor dependency_count.
C8_SelfDependencyRejected ==
    [][\A x \in CallNames :
          AddDependency(x, x) =>
              /\ ret'.err = "SelfDependency"
              /\ Edges(dg') = Edges(dg)
              /\ dependency_count(dg') = dependency_count(dg)]_vars

\* A self-dependency was rejected on a graph that has dependencies.
C8_Witness ==
    /\ ret.op = "add_dependency"
    /\ ret.err = "SelfDependency"
    /\ dg.num_deps > 0

\* C9: add_dependency(a, b) returns true and counts one more dependency
\* when it records the edge; once the edge is recorded it stays recorded
\* and every further add_dependency(a, b) returns false and changes nothing.
C9_AddIdempotent ==
    [][/\ Edges(dg) \subseteq Edges(dg')
       /\ \A a \in Range(dg.fields), b \in Range(dg.fields) :
            (a # b /\ AddDependency(a, b)) =>
              /\ (<<a, b>> \in Edges(dg)) =>
                    /\ ret'.err = "none"
                    /\ ret'.value = FALSE
                    /\ dg' = dg
              /\ (<<a, b>> \notin Edges(dg) /\ <<b, a>> \notin Edges(dg)) =>
                    /\ ret'.err = "none"
                    /\ ret'.value = TRUE
                    /\ Edges(dg') = Edges(dg) \cup {<<a, b>>}
                    /\ dependency_count(dg') = dependency_count(dg) + 1]_vars

\* A dependency was added a second time.
C9_Witness ==
    /\ ret.op = "add_dependency"
    /\ ret.err = "none"
    /\ ret.value = FALSE

\* C10: has_closed_cycles returns true exactly when the recorded edges
\* contain a directed cycle; no recorded cycle has length 1 or 2.
C10_ClosedCyclesExact ==
    /\ \A e \in Edges(dg) : e[1] # e[2] /\ <<e[2], e[1]>> \notin Edges(dg)
    /\ ret.op = "has_closed_cycles" => (ret.value <=> HasDirectedCycle(dg))

\* has_closed_cycles reported a cycle.
C10_Witness ==
    /\ ret.op = "has_closed_cycles"
    /\ ret.value = TRUE

\* A cycle of three or more fields in the recorded edges: a field x with an
\* edge to a field y, from which a path of two or more edges leads back to x.
HasLongCycle(self) ==
    LET E == Edges(self)
        C == Closure(E, E)
    IN \E e \in E : e[1] # e[2] /\ <<e[2], e[1]>> \notin E /\ <<e[2], e[1]>> \in C

\* C11: on every graph in which successful add_dependency calls have
\* assembled a cycle of three or more fields, get_init_order raises the
\* error of the closed loops and returns no order.
C11_LongCycleRejected ==
    (ret.op = "get_init_order" /\ HasLongCycle(dg)) =>
        /\ ret.err = "ClosedLoops"
        /\ ret.order = <<>>

\* get_init_order was called on a graph whose dependencies form a cycle.
C11_Witness ==
    /\ ret.op = "get_init_order"
    /\ HasLongCycle(dg)
    /\ dg.num_deps >= 3

(***************************************************************************)
(* _fields.py.  A float is modelled by an integer counting halves, so      *)
(* that the midpoint of two whole bounds is exact; the infinities are two  *)
(* integers beyond every other value.                                      *)
(***************************************************************************)
\* The float 1.0.
One == 2

\* BoundedField.POS_INF and BoundedField.NEG_INF.
POS_INF == 1000000
NEG_INF == 0 - POS_INF

\* cmath.isfinite
isfinite(x) == x # POS_INF /\ x # NEG_INF

\* The largest finite float, 16.0 in this model: the finite floats are the
\* integers (halves) from -FloatMax to FloatMax.
FloatMax == 16 * One

\* x + y for finite floats x and y.  The sum is exact inside the range of
\* the finite floats; beyond it the sum is rounded to the nearest float:
\* to the largest finite float when it exceeds it by no more than 1.0 (the
\* floats are more than 2.0 apart there), to the infinity otherwise.
FloatAdd(x, y) ==
    LET r == x + y IN
    IF r > FloatMax + One THEN POS_INF
    ELSE IF r > FloatMax THEN FloatMax
    ELSE IF r < 0 - (FloatMax + One) THEN NEG_INF
    ELSE IF r < 0 - FloatMax THEN 0 - FloatMax
    ELSE r

\* 0.5 * x: exact, and an infinity stays the infinity it is.
FloatHalf(x) == IF isfinite(x) THEN x \div 2 ELSE x

\* Optional[float]: None, or a float.
None == [none |-> TRUE, value |-> 0]
Some(x) == [none |-> FALSE, value |-> x]

\* Mutant: the order of the bounds is tested for finite bounds only.
BoundedField_finite_checked(min, max) ==
    LET max1 == IF max.none THEN POS_INF ELSE max.value
        min1 == IF min.none THEN NEG_INF ELSE min.value
    IN IF isfinite(min1) /\ isfinite(max1) /\ min1 > max1
       THEN [constructed |-> FALSE, err |-> "ValueError", min |-> 0, max |-> 0]
       ELSE [constructed |-> TRUE, err |-> "none", min |-> min1, max |-> max1]

\* BoundedField.__init__
BoundedField(min, max) ==
    LET max1 == IF max.none THEN POS_INF ELSE max.value
        min1 == IF min.none THEN NEG_INF ELSE min.value
    IN IF min1 > max1
       THEN [constructed |-> FALSE, err |-> "ValueError", min |-> 0, max |-> 0]
       ELSE [constructed |-> TRUE, err |-> "none", min |-> min1, max |-> max1]

min_finite(self) == isfinite(self.min)

max_finite(self) == isfinite(self.max)

\* BoundedField.contains
contains(self, value) ==
    /\ min_finite(self) => value >= self.min
    /\ max_finite(self) => value <= self.max

\* Mutant: with one finite bound the default is taken on the wrong side
\* of it.
get_bounds_default_wrong_side(self) ==
    IF min_finite(self) /\ max_finite(self)
    THEN FloatHalf(FloatAdd(self.min, self.max))
    ELSE IF min_finite(self) THEN FloatAdd(self.min, 0 - One)
    ELSE IF max_finite(self) THEN FloatAdd(self.max, One)
    ELSE 0

\* BoundedField.get_bounds_default
get_bounds_default(self) ==
    IF min_finite(self) /\ max_finite(self)
    THEN FloatHalf(FloatAdd(self.min, self.max))
    ELSE IF min_finite(self) THEN FloatAdd(self.min, One)
    ELSE IF max_finite(self) THEN FloatAdd(self.max, 0 - One)
    ELSE 0

\* BoundedField.resolve_default: the declared default of the dataclass
\* field is either missing or a float.
resolve_default(self, has_default, field_default) ==
    IF has_default /\ contains(self, field_default) THEN field_default
    ELSE get_bounds_default(self)

(***************************************************************************)
(* The fields of a dataclass, as dataclasses.fields(t) yields them.  The   *)
(* kind is that of the FittingField stored in the metadata of the field:   *)
(* "Plain" when there is none (get_special_fitting_field returns None).    *)
(* Only a plain field can be declared with init=False: bounded, const,     *)
(* same_as and regular have no init parameter.                             *)
(***************************************************************************)
Field(name, kind, init, has_default, default, min, max, value, target) ==
    [name |-> name, kind |-> kind, init |-> init,
     has_default |-> has_default, default |-> default,
     min |-> min, max |-> max, value |-> value, target |-> target]

PlainField(name, init) == Field(name, "Plain", init, FALSE, 0, 0, 0, 0, "")

\* regular(default=d)
RegularFieldOf(name, d) == Field(name, "Regular", TRUE, TRUE, d, 0, 0, 0, "")

\* bounded(min, max) and bounded(min, max, default=d)
BoundedFieldOf(name, lo, hi, has_default, d) ==
    Field(name, "Bounded", TRUE, has_default, d, lo, hi, 0, "")

\* const(value): the value is also the default of the dataclass field.
ConstFieldOf(name, v) == Field(name, "Const", TRUE, TRUE, v, 0, 0, v, "")

\* same_as(target)
SameAsFieldOf(name, target) == Field(name, "SameAs", TRUE, FALSE, 0, 0, 0, 0, target)

(***************************************************************************)
(* _fit_spec.py: the resolvers.                                            *)
(***************************************************************************)
\* A python dict: a function on the set of its keys.
EmptyDict == [x \in {} |-> 0]

DictSet(d, k, v) == [x \in DOMAIN d \cup {k} |-> IF x = k THEN v ELSE d[x]]

UnsetDefaultResolver ==
    [kind |-> "Unset", value |-> 0, target |-> "", name |-> ""]

FixedDefaultResolver(value) ==
    [kind |-> "Fixed", value |-> value, target |-> "", name |-> ""]

\* DependentResolver(target, name): target is the field that depends, name
\* the field its value is taken from.
DependentResolver(target, name) ==
    [kind |-> "Dependent", value |-> 0, target |-> target, name |-> name]

\* resolver.get(others); others[self.name] raises KeyError when the key is
\* not in the dict.
ResolverGet(resolver, others) ==
    IF resolver.kind = "Unset" THEN [err |-> "none", value |-> 0]
    ELSE IF resolver.kind = "Fixed" THEN [err |-> "none", value |-> resolver.value]
    ELSE IF resolver.name \in DOMAIN others
    THEN [err |-> "none", value |-> others[resolver.name]]
    ELSE [err |-> "KeyError", value |-> 0]

(***************************************************************************)
(* FitSpecBase._process_bounds.  An array is a sequence: the element of    *)
(* index k of the source is the element k + 1 of the sequence.  Writing    *)
(* result[k] with k >= num_params raises IndexError.                       *)
(***************************************************************************)
NoArray == [err |-> "none", present |-> FALSE, arr |-> <<>>]

\* Mutant: the array is built also when no bound is set.
process_bounds_always_array(set_bounds, num_params, default) ==
    IF \E k \in DOMAIN set_bounds : k >= num_params
    THEN [NoArray EXCEPT !.err = "IndexError"]
    ELSE [err     |-> "none",
          present |-> TRUE,
          arr     |-> [k \in 1..num_params |->
                         IF (k - 1) \in DOMAIN set_bounds
                         THEN set_bounds[k - 1] ELSE default]]

process_bounds(set_bounds, num_params, default) ==
    IF DOMAIN set_bounds = {} THEN NoArray
    ELSE IF \E k \in DOMAIN set_bounds : k >= num_params
    THEN [NoArray EXCEPT !.err = "IndexError"]
    ELSE [err     |-> "none",
          present |-> TRUE,
          arr     |-> [k \in 1..num_params |->
                         IF (k - 1) \in DOMAIN set_bounds
                         THEN set_bounds[k - 1] ELSE default]]

(***************************************************************************)
(* FitSpecBase.generate                                                    *)
(***************************************************************************)
FieldNamesOf(t) == [k \in 1..Len(t) |-> t[k].name]

\* init_fields = (f for f in all_fields_ordered if f.init)
InitFields(t) == SelectSeq(t, LAMBDA f : f.init)

\* The local variables of generate before the loop over the fields.
GenerateLocals(t) ==
    [depgraph          |-> DepGraphNew(FieldNamesOf(t)),
     field_descriptors |-> EmptyDict,
     set_lower_bounds  |-> EmptyDict,
     set_upper_bounds  |-> EmptyDict,
     default_resolvers |-> <<>>,
     special_fields    |-> <<>>,
     fitting_fields    |-> <<>>,
     dep_resolver_map  |-> EmptyDict,
     err               |-> "none"]

\* Mutant: a const field is appended to the fitting fields as well.
GenerateField_const_fitted(st, i, field) ==
    LET st1 == [st EXCEPT
                  !.special_fields = Append(@, field.name),
                  !.field_descriptors = DictSet(@, field.name, field)]
    IN
    IF field.kind \in {"Plain", "Regular"}
    THEN [st1 EXCEPT
            !.default_resolvers =
                Append(@, IF field.has_default
                          THEN FixedDefaultResolver(field.default)
                          ELSE UnsetDefaultResolver),
            !.fitting_fields = Append(@, field.name)]
    ELSE IF field.kind = "Bounded"
    THEN [st1 EXCEPT
            !.set_lower_bounds =
                IF min_finite(field) THEN DictSet(@, i, field.min) ELSE @,
            !.set_upper_bounds =
                IF max_finite(field) THEN DictSet(@, i, field.max) ELSE @,
            !.default_resolvers =
                Append(@, FixedDefaultResolver(
                              resolve_default(field, field.has_default,
                                              field.default))),
            !.fitting_fields = Append(@, field.name)]
    ELSE IF field.kind = "Const"
    THEN [st1 EXCEPT
            !.default_resolvers = Append(@, FixedDefaultResolver(field.value)),
            !.fitting_fields = Append(@, field.name)]
    ELSE IF field.kind = "SameAs"
    THEN LET r == add_dependency(st1.depgraph, field.name, field.target)
             def_res == DependentResolver(field.name, field.target)
         IN IF r.err # "none" THEN [st1 EXCEPT !.err = r.err]
            ELSE [st1 EXCEPT
                    !.depgraph = r.dg,
                    !.dep_resolver_map = DictSet(@, field.name, def_res),
                    !.default_resolvers = Append(@, def_res)]
    ELSE [st1 EXCEPT !.err = "NotImplementedError"]

\* Mutant: the declared default of a regular field is not looked at.
GenerateField_default_ignored(st, i, field) ==
    LET st1 == [st EXCEPT
                  !.special_fields = Append(@, field.name),
                  !.field_descriptors = DictSet(@, field.name, field)]
    IN
    IF field.kind \in {"Plain", "Regular"}
    THEN [st1 EXCEPT
            !.default_resolvers =
                Append(@, UnsetDefaultResolver),
            !.fitting_fields = Append(@, field.name)]
    ELSE IF field.kind = "Bounded"
    THEN [st1 EXCEPT
            !.set_lower_bounds =
                IF min_finite(field) THEN DictSet(@, i, field.min) ELSE @,
            !.set_upper_bounds =
                IF max_finite(field) THEN DictSet(@, i, field.max) ELSE @,
            !.default_resolvers =
                Append(@, FixedDefaultResolver(
                              resolve_default(field, field.has_default,
                                              field.default))),
            !.fitting_fields = Append(@, field.name)]
    ELSE IF field.kind = "Const"
    THEN [st1 EXCEPT
            !.default_resolvers = Append(@, FixedDefaultResolver(field.value))]
    ELSE IF field.kind = "SameAs"
    THEN LET r == add_dependency(st1.depgraph, field.name, field.target)
             def_res == DependentResolver(field.name, field.target)
         IN IF r.err # "none" THEN [st1 EXCEPT !.err = r.err]
            ELSE [st1 EXCEPT
                    !.depgraph = r.dg,
                    !.dep_resolver_map = DictSet(@, field.name, def_res),
                    !.default_resolvers = Append(@, def_res)]
    ELSE [st1 EXCEPT !.err = "NotImplementedError"]

\* The body of the loop "for i, field in enumerate(init_fields)".
GenerateField(st, i, field) ==
    LET st1 == [st EXCEPT
                  !.special_fields = Append(@, field.name),
                  !.field_descriptors = DictSet(@, field.name, field)]
    IN
    IF field.kind \in {"Plain", "Regular"}
    THEN [st1 EXCEPT
            !.default_resolvers =
                Append(@, IF field.has_default
                          THEN FixedDefaultResolver(field.default)
                          ELSE UnsetDefaultResolver),
            !.fitting_fields = Append(@, field.name)]
    ELSE IF field.kind = "Bounded"
    THEN [st1 EXCEPT
            !.set_lower_bounds =
                IF min_finite(field) THEN DictSet(@, i, field.min) ELSE @,
            !.set_upper_bounds =
                IF max_finite(field) THEN DictSet(@, i, field.max) ELSE @,
            !.default_resolvers =
                Append(@, FixedDefaultResolver(
                              resolve_default(field, field.has_default,
                                              field.default))),
            !.fitting_fields = Append(@, field.name)]
    ELSE IF field.kind = "Const"
    THEN [st1 EXCEPT
            !.default_resolvers = Append(@, FixedDefaultResolver(field.value))]
    ELSE IF field.kind = "SameAs"
    THEN LET r == add_dependency(st1.depgraph, field.name, field.target)
             def_res == DependentResolver(field.name, field.target)
         IN IF r.err # "none" THEN [st1 EXCEPT !.err = r.err]
            ELSE [st1 EXCEPT
                    !.depgraph = r.dg,
                    !.dep_resolver_map = DictSet(@, field.name, def_res),
                    !.default_resolvers = Append(@, def_res)]
    ELSE [st1 EXCEPT !.err = "NotImplementedError"]

RECURSIVE GenerateLoop(_, _, _)
GenerateLoop(st, fs, i) ==
    IF i >= Len(fs) \/ st.err # "none" THEN st
    ELSE GenerateLoop(GenerateField(st, i, fs[i + 1]), fs, i + 1)

\* get_dep_resolvers(ordered_fields)
get_dep_resolvers(ordered_fields, dep_resolver_map) ==
    LET deps == SelectSeq(ordered_fields,
                          LAMBDA f : f \in DOMAIN dep_resolver_map)
    IN [k \in 1..Len(deps) |-> dep_resolver_map[deps[k]]]

\* generate raised err.
GenerateFailed(err) == [generated |-> FALSE, err |-> err]

\* bounds = (lb, ub): a side without array is the scalar default.
BoundsSide(b, default) ==
    IF b.present THEN [scalar |-> FALSE, value |-> 0, arr |-> b.arr]
    ELSE [scalar |-> TRUE, value |-> default, arr |-> <<>>]

\* The part of generate after the loop over the fields.
GenerateFinish(st) ==
    LET num_special_params == Len(st.special_fields)
        t_def_res == st.default_resolvers
        cyclic == has_closed_cycles(st.depgraph)
        order  == get_init_order(st.depgraph)
        ssf    == Range(st.special_fields)
        with_deps == dependency_count(st.depgraph) > 0
        init_order ==
            IF with_deps THEN SelectSeq(order.order, LAMBDA f : f \in ssf)
            ELSE st.special_fields
        dep_resolvers_seq ==
            IF with_deps THEN get_dep_resolvers(init_order, st.dep_resolver_map)
            ELSE <<>>
        num_fitting_params == Len(st.fitting_fields)
        lower_bounds == process_bounds(st.set_lower_bounds,
                                       num_fitting_params, NEG_INF)
        upper_bounds == process_bounds(st.set_upper_bounds,
                                       num_fitting_params, POS_INF)
    IN
    IF Len(t_def_res) # num_special_params THEN GenerateFailed("AssertionError")
    ELSE IF with_deps /\ cyclic THEN GenerateFailed("CircularDependencies")
    ELSE IF with_deps /\ order.err # "none" THEN GenerateFailed(order.err)
    ELSE IF with_deps /\ Len(init_order) # num_special_params
    THEN GenerateFailed("AssertionError")
    ELSE IF lower_bounds.err # "none" THEN GenerateFailed(lower_bounds.err)
    ELSE IF upper_bounds.err # "none" THEN GenerateFailed(upper_bounds.err)
    ELSE [generated           |-> TRUE,
          err                 |-> "none",
          special_param_count |-> num_special_params,
          init_order          |-> init_order,
          fitting_param_count |-> num_fitting_params,
          fitting_params      |-> st.fitting_fields,
          fitting_fields      |-> st.field_descriptors,
          default_resolvers   |-> t_def_res,
          lower_bounds        |-> [present |-> lower_bounds.present,
                                   arr |-> lower_bounds.arr],
          upper_bounds        |-> [present |-> upper_bounds.present,
                                   arr |-> upper_bounds.arr],
          bounds              |-> <<BoundsSide(lower_bounds, NEG_INF),
                                    BoundsSide(upper_bounds, POS_INF)>>,
          dep_resolvers       |-> dep_resolvers_seq]

generate(t) ==
    LET st == GenerateLoop(GenerateLocals(t), InitFields(t), 0)
    IN IF st.err # "none" THEN GenerateFailed(st.err) ELSE GenerateFinish(st)

(***************************************************************************)
(* The constructor the dataclass decorator generates (keyword arguments).  *)
(* It takes the fields with init=True; an argument that is not passed is   *)
(* the default of the field, and TypeError is raised for an argument that  *)
(* is no init field or for a missing argument without default.  The        *)
(* instance is the dict of its attributes.                                 *)
(***************************************************************************)
Construct(t, kwargs) ==
    LET fs == InitFields(t)
        names == {fs[k].name : k \in 1..Len(fs)}
        byName == [n \in names |-> fs[CHOOSE k \in 1..Len(fs) : fs[k].name = n]]
    IN IF \E k \in DOMAIN kwargs : k \notin names
       THEN [err |-> "TypeError", instance |-> EmptyDict]
       ELSE IF \E n \in names : n \notin DOMAIN kwargs /\ ~byName[n].has_default
       THEN [err |-> "TypeError", instance |-> EmptyDict]
       ELSE [err      |-> "none",
             instance |-> [n \in names |->
                             IF n \in DOMAIN kwargs THEN kwargs[n]
                             ELSE byName[n].default]]

(***************************************************************************)
(* FitSpec.create_default_fit_instance                                     *)
(***************************************************************************)
\* zip(init_order, def_res) ends with the shorter of the two.
RECURSIVE DefaultParams(_, _, _, _)
DefaultParams(init_order, def_res, k, params) ==
    IF k > Len(init_order) \/ k > Len(def_res)
    THEN [err |-> "none", params |-> params]
    ELSE LET v == ResolverGet(def_res[k], params)
         IN IF v.err # "none" THEN [err |-> v.err, params |-> params]
            ELSE DefaultParams(init_order, def_res, k + 1,
                               DictSet(params, init_order[k], v.value))

create_default_fit_instance(self, t) ==
    LET p == DefaultParams(self.init_order, self.default_resolvers, 1, EmptyDict)
    IN IF p.err # "none" THEN [err |-> p.err, instance |-> EmptyDict]
       ELSE Construct(t, p.params)

(***************************************************************************)
(* FitSpec.instance_to_array                                               *)
(***************************************************************************)
\* Mutant: an array longer than fitting_params is accepted and its first
\* entries are written.
instance_to_array_longer_accepted(self, instance, out) ==
    IF Len(out) < self.fitting_param_count
    THEN [err |-> "ShapeMismatch", out |-> out]
    ELSE IF \E k \in 1..Len(self.fitting_params) :
               self.fitting_params[k] \notin DOMAIN instance
    THEN [err |-> "AttributeError", out |-> out]
    ELSE [err |-> "none",
          out |-> [k \in 1..Len(out) |->
                     IF k <= Len(self.fitting_params)
                     THEN instance[self.fitting_params[k]] ELSE out[k]]]

instance_to_array(self, instance, out) ==
    IF Len(out) # self.fitting_param_count
    THEN [err |-> "ShapeMismatch", out |-> out]
    ELSE IF \E k \in 1..Len(self.fitting_params) :
               self.fitting_params[k] \notin DOMAIN instance
    THEN [err |-> "AttributeError", out |-> out]
    ELSE [err |-> "none",
          out |-> [k \in 1..Len(out) |-> instance[self.fitting_params[k]]]]

(***************************************************************************)
(* FitSpec.array_to_instance                                               *)
(***************************************************************************)
\* for resolver in self.dep_resolvers: kwargs[resolver.target] = ...
RECURSIVE ResolveDependent(_, _, _)
ResolveDependent(dep_resolvers, k, kwargs) ==
    IF k > Len(dep_resolvers) THEN [err |-> "none", kwargs |-> kwargs]
    ELSE LET v == ResolverGet(dep_resolvers[k], kwargs)
         IN IF v.err # "none" THEN [err |-> v.err, kwargs |-> kwargs]
            ELSE ResolveDependent(dep_resolvers, k + 1,
                                  DictSet(kwargs, dep_resolvers[k].target, v.value))

array_to_instance(self, t, array) ==
    IF Len(array) # self.fitting_param_count
    THEN [err |-> "ShapeMismatch", instance |-> EmptyDict]
    ELSE LET seeded == [n \in Range(self.fitting_params) |->
                           array[PosOf(self.fitting_params, n)]]
             r == ResolveDependent(self.dep_resolvers, 1, seeded)
         IN IF r.err # "none" THEN [err |-> r.err, instance |-> EmptyDict]
            ELSE Construct(t, r.kwargs)

(***************************************************************************)
(* The dataclasses, arrays and instances the calls are made with.          *)
(***************************************************************************)
\* The names of the fields of a dataclass, in declaration order: a
\* dataclass has the first n of them, for every n.
ClassFieldNames == <<"a", "b", "c">>

\* The entries of the arrays and the attributes of the instances.
ArrayValues == {5, 7}

\* The longest array handed to array_to_instance and instance_to_array.
MaxArrayLen == 3

\* The declarations of the field of a given name in a dataclass of n fields.
FieldDeclarations(name, n) ==
    {PlainField(name, TRUE), PlainField(name, FALSE), RegularFieldOf(name, 2 * One)}
    \cup {BoundedFieldOf(name, lo, hi, FALSE, 0) :
              lo \in {NEG_INF, 0}, hi \in {2 * One, POS_INF}}
    \cup {BoundedFieldOf(name, 0, 2 * One, TRUE, d) : d \in {3, 6 * One}}
    \cup {ConstFieldOf(name, 7 * One)}
    \cup {SameAsFieldOf(name, target) :
              target \in Range(SubSeq(ClassFieldNames, 1, n)) \cup {UnknownName}}

Dataclasses ==
    UNION {
        {t \in [1..n -> UNION {FieldDeclarations(ClassFieldNames[k], n) : k \in 1..n}] :
            \A k \in 1..n : t[k].name = ClassFieldNames[k]}
        : n \in 0..Len(ClassFieldNames)}

Arrays == UNION {[1..n -> ArrayValues] : n \in 0..MaxArrayLen}

\* The arrays handed to instance_to_array to be filled: new_empty_array
\* leaves the content unset, 0 stands for it.
EmptyArrays == {[k \in 1..n |-> 0] : n \in 0..MaxArrayLen}

\* The instances of the dataclass t: one attribute per init field.
Instances(t) == [Range(FieldNamesOf(InitFields(t))) -> ArrayValues]

(***************************************************************************)
(* The state machine of one dataclass: its FitSpec is generated, then the  *)
(* methods of the FitSpec are called in any order.                         *)
(***************************************************************************)
FitInit ==
    /\ dg = DepGraphNew(<<>>)
    /\ ret = NoCall
    /\ clss \in Dataclasses
    /\ fitspec = NoFitSpec
    /\ res = NoFitCall
    /\ bfield = NoBoundedField
    /\ bret = NoFieldCall
    /\ calls = NoCalls
    /\ registry = EmptyRegistry
    /\ rret = NoRegistryCall
    /\ hist = NoHistory

Generate ==
    /\ fitspec' = generate(clss)
    /\ res' = NoFitCall
    /\ UNCHANGED <<dg, ret, clss, bfield, bret, calls, registry, rret, hist>>

CreateDefaultFitInstance ==
    /\ fitspec.generated
    /\ LET r == create_default_fit_instance(fitspec, clss)
       IN res' = [op |-> "create_default_fit_instance", err |-> r.err,
                  instance |-> r.instance]
    /\ UNCHANGED <<dg, ret, clss, fitspec, bfield, bret, calls, registry, rret, hist>>

InstanceToArray(instance, out) ==
    /\ fitspec.generated
    /\ LET r == instance_to_array(fitspec, instance, out)
       IN res' = [op |-> "instance_to_array", err |-> r.err, out |-> r.out]
    /\ UNCHANGED <<dg, ret, clss, fitspec, bfield, bret, calls, registry, rret, hist>>

ArrayToInstance(array) ==
    /\ fitspec.generated
    /\ LET r == array_to_instance(fitspec, clss, array)
       IN res' = [op |-> "array_to_instance", err |-> r.err,
                  instance |-> r.instance]
    /\ UNCHANGED <<dg, ret, clss, fitspec, bfield, bret, calls, registry, rret, hist>>

FitNext ==
    \/ Generate
    \/ CreateDefaultFitInstance
    \/ \E instance \in Instances(clss), out \in EmptyArrays :
          InstanceToArray(instance, out)
    \/ \E array \in Arrays : ArrayToInstance(array)

SpecFit == FitInit /\ [][FitNext]_vars

(***************************************************************************)
(* Notions the properties of a FitSpec are stated with.  They are defined  *)
(* on the declaration of the dataclass.                                    *)
(***************************************************************************)
\* The declaration of the field of the dataclass t that has the given name.
FieldNamed(t, name) == t[CHOOSE k \in 1..Len(t) : t[k].name = name]

InitFieldNames(t) == Range(FieldNamesOf(InitFields(t)))

\* The same-as fields of t and the const fields of t.
SameAsFields(t) == {f \in Range(InitFields(t)) : f.kind = "SameAs"}
ConstFields(t) == {f \in Range(InitFields(t)) : f.kind = "Const"}

\* Every same-as field of t names a field of the constructor of t.
TargetsAreInitFields(t) == \A f \in SameAsFields(t) : f.target \in InitFieldNames(t)

\* The resolver of the default value of a field, from its declaration.
DeclaredResolver(f) ==
    CASE f.kind = "SameAs"  -> DependentResolver(f.name, f.target)
      [] f.kind = "Const"   -> FixedDefaultResolver(f.value)
      [] f.kind = "Bounded" ->
            FixedDefaultResolver(resolve_default(f, f.has_default, f.default))
      [] OTHER -> IF f.has_default THEN FixedDefaultResolver(f.default)
                  ELSE UnsetDefaultResolver

\* The bound a fitting field declares on a side, infinite when it declares
\* none.
DeclaredLower(f) == IF f.kind = "Bounded" /\ isfinite(f.min) THEN f.min ELSE NEG_INF
DeclaredUpper(f) == IF f.kind = "Bounded" /\ isfinite(f.max) THEN f.max ELSE POS_INF

\* In the instance every same-as field has the value of its target.
SameAsHold(t, instance) ==
    \A f \in SameAsFields(t) :
        /\ f.name \in DOMAIN instance
        /\ f.target \in DOMAIN instance
        /\ instance[f.name] = instance[f.target]

(***************************************************************************)
(* Properties of the generated FitSpec.                                    *)
(***************************************************************************)
\* C2: in a generated specification default_resolvers[k] is the resolver
\* of the field init_order[k], for every position k.
C2_ResolversAligned ==
    fitspec.generated =>
        /\ Len(fitspec.default_resolvers) = Len(fitspec.init_order)
        /\ \A k \in 1..Len(fitspec.init_order) :
              fitspec.default_resolvers[k] =
                  DeclaredResolver(FieldNamed(clss, fitspec.init_order[k]))

\* C3: for a generated specification create_default_fit_instance returns
\* an instance, no resolver reading a field that is not resolved yet; in
\* it every same-as field has the value of its target and every const
\* field its fixed value.
C3_DefaultInstanceResolved ==
    (res.op = "create_default_fit_instance" /\ TargetsAreInitFields(clss)) =>
        /\ res.err = "none"
        /\ SameAsHold(clss, res.instance)
        /\ \A f \in ConstFields(clss) : res.instance[f.name] = f.value

\* C4: the bounds arrays, when present, have one entry per fitting
\* parameter, the bound the field fitting_params[k] declares on that side
\* or the infinity of that side; no mix of field kinds makes the generation
\* fail on the bounds.
C4_BoundsAligned ==
    /\ fitspec.err # "IndexError"
    /\ fitspec.generated =>
        /\ fitspec.lower_bounds.present =>
              /\ Len(fitspec.lower_bounds.arr) = Len(fitspec.fitting_params)
              /\ \A k \in 1..Len(fitspec.fitting_params) :
                    fitspec.lower_bounds.arr[k] =
                        DeclaredLower(FieldNamed(clss, fitspec.fitting_params[k]))
        /\ fitspec.upper_bounds.present =>
              /\ Len(fitspec.upper_bounds.arr) = Len(fitspec.fitting_params)
              /\ \A k \in 1..Len(fitspec.fitting_params) :
                    fitspec.upper_bounds.arr[k] =
                        DeclaredUpper(FieldNamed(clss, fitspec.fitting_params[k]))

\* C5: array_to_instance, given an array of the length of fitting_params,
\* returns an instance in which every same-as field has the value of its
\* target, no resolver reading a key that is not in the mapping, whatever
\* the kind of the target.
C5_DependentFilled ==
    (/\ res.op = "array_to_instance"
     /\ res.err # "ShapeMismatch"
     /\ TargetsAreInitFields(clss)) =>
        /\ res.err = "none"
        /\ SameAsHold(clss, res.instance)

\* generate was called on the dataclass, and returned or raised.
GenerateCalled == fitspec # NoFitSpec

\* The same-as relation of t: <<f, g>> when f is declared same_as(g).
SameAsRelation(t) == {<<f.name, f.target>> : f \in SameAsFields(t)}

\* The relation holds a self-reference, a cycle of two fields or a longer one.
SameAsCyclic(t) ==
    \E p \in Closure(SameAsRelation(t), SameAsRelation(t)) : p[1] = p[2]

\* Every same-as field of t names a field of t.
TargetsAreFields(t) ==
    \A f \in SameAsFields(t) : f.target \in Range(FieldNamesOf(t))

\* C12: for a dataclass whose same-as fields all name fields of the
\* dataclass, generate raises and returns no specification when the same-as
\* relation holds a self-reference, a cycle of two fields or a longer
\* cycle, and returns a specification when the relation is acyclic.
C12_CyclesRejectedOnly ==
    (GenerateCalled /\ TargetsAreFields(clss)) =>
        /\ SameAsCyclic(clss) => (~fitspec.generated /\ fitspec.err # "none")
        /\ ~SameAsCyclic(clss) => fitspec.generated

\* C13: in every generated specification init_order is a permutation of
\* the fields of the constructor, and every same-as field stands in it
\* strictly after its target.
C13_InitOrderRespectsSameAs ==
    fitspec.generated =>
        /\ IsPermutationOf(fitspec.init_order, FieldNamesOf(InitFields(clss)))
        /\ \A f \in SameAsFields(clss) :
              /\ PosOf(fitspec.init_order, f.target) > 0
              /\ PosOf(fitspec.init_order, f.target)
                    < PosOf(fitspec.init_order, f.name)

\* The fields of the constructor of t that are fitted, in declaration
\* order: the regular ones (tagged or plain) and the bounded ones.
DeclaredFittingParams(t) ==
    FieldNamesOf(SelectSeq(t, LAMBDA f :
        f.init /\ f.kind \in {"Plain", "Regular", "Bounded"}))

\* C14: in every generated specification fitting_params holds exactly the
\* regular (tagged or plain) and the bounded fields, in declaration order,
\* also when init_order is not the declaration order; no const and no
\* same-as field is in it.
C14_FittingParamsDeclared ==
    fitspec.generated =>
        /\ fitspec.fitting_params = DeclaredFittingParams(clss)
        /\ fitspec.fitting_param_count = Len(fitspec.fitting_params)
        /\ \A f \in SameAsFields(clss) \cup ConstFields(clss) :
              f.name \notin Range(fitspec.fitting_params)

\* A specification was generated whose init_order is not the declaration
\* order and which has two fitting parameters next to a same-as field.
C14_Witness ==
    /\ fitspec.generated
    /\ fitspec.init_order # FieldNamesOf(InitFields(clss))
    /\ Len(fitspec.fitting_params) >= 2
    /\ SameAsFields(clss) # {}

\* C15: for a generated specification and every instance of the dataclass,
\* the array instance_to_array writes is rebuilt by array_to_instance into
\* an instance that has the attributes of the original on every field of
\* fitting_params, in which every same-as field has the value of its target
\* and every const field its declared constant.
C15_RoundTrip ==
    [][\A instance \in Instances(clss), out \in EmptyArrays :
          (/\ InstanceToArray(instance, out)
           /\ Len(out) = fitspec.fitting_param_count
           /\ TargetsAreInitFields(clss)) =>
              LET r == array_to_instance(fitspec, clss, res'.out) IN
              /\ res'.err = "none"
              /\ r.err = "none"
              /\ \A n \in Range(fitspec.fitting_params) :
                    r.instance[n] = instance[n]
              /\ SameAsHold(clss, r.instance)
              /\ \A f \in ConstFields(clss) : r.instance[f.name] = f.value]_vars

\* C16: instance_to_array and array_to_instance raise the error of the
\* mismatching shape whenever the length of the array is not the number of
\* fitting parameters, shorter or longer; instance_to_array has then written
\* nothing to the array and array_to_instance has built no instance.
C16_ShapeMismatch ==
    [][fitspec.generated =>
        /\ res'.op = "instance_to_array" =>
             \A out \in EmptyArrays :
                 Len(out) # Len(fitspec.fitting_params) =>
                     \A instance \in Instances(clss) :
                         InstanceToArray(instance, out) =>
                             /\ res'.err = "ShapeMismatch"
                             /\ res'.out = out
        /\ res'.op = "array_to_instance" =>
             \A array \in Arrays :
                 (/\ Len(array) # Len(fitspec.fitting_params)
                  /\ ArrayToInstance(array)) =>
                     /\ res'.err = "ShapeMismatch"
                     /\ res'.instance = EmptyDict]_vars

\* instance_to_array was handed an array longer than fitting_params, which
\* holds a parameter, and raised.
C16_Witness ==
    /\ res.op = "instance_to_array"
    /\ res.err = "ShapeMismatch"
    /\ Len(fitspec.fitting_params) >= 1
    /\ Len(res.out) > Len(fitspec.fitting_params)

\* A field of the constructor of t declares a finite lower (upper) bound.
DeclaresLower(t) ==
    \E f \in Range(InitFields(t)) : f.kind = "Bounded" /\ isfinite(f.min)
DeclaresUpper(t) ==
    \E f \in Range(InitFields(t)) : f.kind = "Bounded" /\ isfinite(f.max)

\* The scalar that stands for a side without bounds in the bounds tuple.
ScalarBound(v) == [scalar |-> TRUE, value |-> v, arr |-> <<>>]

\* C17: on each side the array of bounds is None exactly when no field
\* declares a finite bound on that side; the bounds tuple is always there,
\* a side without array being the scalar -inf (lower) or +inf (upper), so
\* that without any finite bound the tuple is the pair (-inf, +inf).
C17_BoundsPresence ==
    fitspec.generated =>
        /\ fitspec.lower_bounds.present <=> DeclaresLower(clss)
        /\ fitspec.upper_bounds.present <=> DeclaresUpper(clss)
        /\ Len(fitspec.bounds) = 2
        /\ fitspec.bounds[1] =
              IF DeclaresLower(clss)
              THEN [scalar |-> FALSE, value |-> 0, arr |-> fitspec.lower_bounds.arr]
              ELSE ScalarBound(NEG_INF)
        /\ fitspec.bounds[2] =
              IF DeclaresUpper(clss)
              THEN [scalar |-> FALSE, value |-> 0, arr |-> fitspec.upper_bounds.arr]
              ELSE ScalarBound(POS_INF)
        /\ (~DeclaresLower(clss) /\ ~DeclaresUpper(clss)) =>
              fitspec.bounds = <<ScalarBound(NEG_INF), ScalarBound(POS_INF)>>

\* A specification was generated for a dataclass with a bounded field that
\* declares a finite bound on one side only, next to another fitting field.
C17_Witness ==
    /\ fitspec.generated
    /\ DeclaresLower(clss)
    /\ ~DeclaresUpper(clss)
    /\ Len(fitspec.fitting_params) >= 2

(***************************************************************************)
(* The state machine of one BoundedField: it is constructed from the       *)
(* arguments of bounded(min, max), then its methods are called in any      *)
(* order, and it may be constructed anew.                                  *)
(***************************************************************************)
\* The floats handed to bounded, resolve_default and contains: whole
\* numbers, so that the half of a sum of two of them is exact.
FloatInputs ==
    {NEG_INF, 0 - FloatMax, 0 - 2 * One, 0, 2 * One, 12 * One, FloatMax, POS_INF}

\* The arguments min and max of bounded: None or a float.
OptFloats == {None} \cup {Some(x) : x \in FloatInputs}

\* The default of the dataclass field: MISSING (None here) or a float.
FieldDefaults == {None} \cup {Some(x) : x \in FloatInputs \cup {3}}

FieldInit ==
    /\ dg = DepGraphNew(<<>>)
    /\ ret = NoCall
    /\ clss = NoClass
    /\ fitspec = NoFitSpec
    /\ res = NoFitCall
    /\ bfield = NoBoundedField
    /\ bret = NoFieldCall
    /\ calls = NoCalls
    /\ registry = EmptyRegistry
    /\ rret = NoRegistryCall
    /\ hist = NoHistory

NewBoundedField(min, max) ==
    /\ bfield' = BoundedField(min, max)
    /\ bret' = NoFieldCall
    /\ UNCHANGED <<dg, ret, clss, fitspec, res, calls, registry, rret, hist>>

ResolveDefault(field_default) ==
    /\ bfield.constructed
    /\ bret' = [NoFieldCall EXCEPT
                  !.op = "resolve_default",
                  !.has_arg = ~field_default.none,
                  !.arg = field_default.value,
                  !.value = resolve_default(bfield, ~field_default.none,
                                            field_default.value)]
    /\ UNCHANGED <<dg, ret, clss, fitspec, res, bfield, calls, registry, rret, hist>>

GetBoundsDefault ==
    /\ bfield.constructed
    /\ bret' = [NoFieldCall EXCEPT !.op = "get_bounds_default",
                                   !.value = get_bounds_default(bfield)]
    /\ UNCHANGED <<dg, ret, clss, fitspec, res, bfield, calls, registry, rret, hist>>

Contains(value) ==
    /\ bfield.constructed
    /\ bret' = [NoFieldCall EXCEPT !.op = "contains", !.has_arg = TRUE,
                                   !.arg = value,
                                   !.flag = contains(bfield, value)]
    /\ UNCHANGED <<dg, ret, clss, fitspec, res, bfield, calls, registry, rret, hist>>

FieldNext ==
    \/ \E min \in OptFloats, max \in OptFloats : NewBoundedField(min, max)
    \/ \E field_default \in FieldDefaults : ResolveDefault(field_default)
    \/ GetBoundsDefault
    \/ \E value \in FloatInputs \cup {3} : Contains(value)

SpecField == FieldInit /\ [][FieldNext]_vars

(***************************************************************************)
(* Properties of BoundedField.                                             *)
(***************************************************************************)
\* The value lies in [min, max], an infinite bound leaving its side open.
WithinBounds(self, value) ==
    /\ (self.min # NEG_INF /\ self.min # POS_INF) => self.min <= value
    /\ (self.max # NEG_INF /\ self.max # POS_INF) => value <= self.max

\* C18: for every BoundedField (min <= max) and every declared default,
\* present or absent, resolve_default returns the declared default when
\* there is one and it lies within the bounds, and the bounds-default
\* otherwise; the value returned is contained in the bounds in every case.
C18_ResolveDefaultContained ==
    bret.op = "resolve_default" =>
        /\ bfield.min <= bfield.max
        /\ bret.value =
              IF bret.has_arg /\ WithinBounds(bfield, bret.arg)
              THEN bret.arg ELSE get_bounds_default(bfield)
        /\ contains(bfield, bret.value)
        /\ WithinBounds(bfield, bret.value)

\* The float nearest to the number x (counted in halves, as the floats
\* are): x itself inside the range of the finite floats, the largest finite
\* float up to 1.0 beyond it, the infinity further out.
NearestFloat(x) ==
    IF x > FloatMax + One THEN POS_INF
    ELSE IF x > FloatMax THEN FloatMax
    ELSE IF x < 0 - (FloatMax + One) THEN NEG_INF
    ELSE IF x < 0 - FloatMax THEN 0 - FloatMax
    ELSE x

C20_BoundsOrdered ==
    [][/\ \A min \in OptFloats, max \in OptFloats :
            (/\ NewBoundedField(min, max)
             /\ (IF min.none THEN NEG_INF ELSE min.value)
                   > (IF max.none THEN POS_INF ELSE max.value)) =>
                /\ bfield'.err = "ValueError"
                /\ ~bfield'.constructed
       /\ bfield'.constructed => bfield'.min <= bfield'.max]_vars

\* A declaration was rejected: no BoundedField was constructed.
C20_Witness ==
    /\ bfield.err = "ValueError"
    /\ ~bfield.constructed

(***************************************************************************)
(* Further properties of DepGraph.                                         *)
(***************************************************************************)
\* C22: after any sequence of add_dependency calls, whether they recorded
\* an edge, repeated one or raised, no field depends on itself and no two
\* fields depend on each other.
C22_NoSelfNoTwoCycle ==
    \A i \in 0..(dg.N - 1), j \in 0..(dg.N - 1) :
        /\ dg.graph[i][i] = 0
        /\ ~(dg.graph[i][j] # 0 /\ dg.graph[j][i] # 0)

\* A call was rejected because of the reverse edge, on a graph with three
\* dependencies.
C22_Witness ==
    /\ ret.op = "add_dependency"
    /\ ret.err = "CircularDependency"
    /\ Cardinality(Edges(dg)) = 3

\* C23: after any sequence of add_dependency calls, whether they recorded
\* an edge, repeated one or raised, dependency_count is the number of the
\* recorded edges; it is 0 for a graph just constructed.
C23_CountIsEdges ==
    /\ dependency_count(dg) = Cardinality(Edges(dg))
    /\ ret.op = "dependency_count" => ret.count = Cardinality(Edges(dg))
    /\ ret.op = "none" => dependency_count(dg) = 0

\* dependency_count was called on a graph with two dependencies.
C23_Witness ==
    /\ ret.op = "dependency_count"
    /\ ret.count = 2

\* C25: for a graph without fields or without edges get_init_order returns
\* the fields in their declaration order, the empty sequence when there is
\* no field.
C25_NoEdgesDeclarationOrder ==
    (ret.op = "get_init_order" /\ (dg.N = 0 \/ Edges(dg) = {})) =>
        /\ ret.err = "none"
        /\ ret.order = dg.fields
        /\ dg.N = 0 => ret.order = <<>>

\* get_init_order was called on a graph of four fields without edges.
C25_Witness ==
    /\ ret.op = "get_init_order"
    /\ dg.N = 4
    /\ Edges(dg) = {}

\* The graph over the fields of self that is handed the edges of E, each
\* once, in one fixed order.
RECURSIVE GraphFromEdges(_, _)
GraphFromEdges(self, E) ==
    IF E = {} THEN self
    ELSE LET e == CHOOSE e \in E : TRUE
         IN GraphFromEdges(add_dependency(self, e[1], e[2]).dg, E \ {e})

\* C27: the order get_init_order returns depends on the fields and on the
\* set of recorded edges alone: it is the order of the graph built anew
\* from the same fields and the same edges, whatever calls of
\* add_dependency, in whatever order and with whatever repetitions,
\* recorded them; a repeated call returns the same order.
C27_OrderDependsOnEdgesOnly ==
    [][GetInitOrder =>
        LET r == get_init_order(GraphFromEdges(DepGraphNew(dg.fields), Edges(dg)))
        IN /\ ret'.order = r.order
           /\ ret'.err = r.err
           /\ ret.op = "get_init_order" =>
                 (ret'.order = ret.order /\ ret'.err = ret.err)]_vars

\* get_init_order returned the order d, b, a, c for a graph with four
\* edges.
C27_Witness ==
    /\ ret.op = "get_init_order"
    /\ ret.order = <<"d", "b", "a", "c">>
    /\ Cardinality(Edges(dg)) = 4

\* C28: dependency_count, has_closed_cycles and get_init_order, whether it
\* returns an order or raises, leave the graph unchanged: the edges, the
\* fields and dependency_count are the same after the call as before, and
\* every further call of add_dependency behaves as it would have without
\* the query.
C28_QueriesLeaveGraph ==
    [][(DependencyCount \/ HasClosedCycles \/ GetInitOrder) =>
        /\ Edges(dg') = Edges(dg)
        /\ dg'.fields = dg.fields
        /\ dependency_count(dg') = dependency_count(dg)
        /\ \A which \in CallNames, source \in CallNames :
              add_dependency(dg', which, source) =
                  add_dependency(dg, which, source)]_vars

\* get_init_order returned an order of four fields for a graph that holds
\* three edges after the call.
C28_Witness ==
    /\ ret.op = "get_init_order"
    /\ ret.err = "none"
    /\ Len(ret.order) = 4
    /\ Cardinality(Edges(dg)) = 3

\* C29: get_init_order terminates on every graph add_dependency calls can
\* build: on a cyclic graph it raises before the first pass of its main
\* loop, and on an acyclic graph every pass removes one field, so the loop
\* ends after N passes with all N fields resolved.
C29_InitOrderTerminates ==
    ret.op = "get_init_order" =>
        /\ ret.err # "NonTermination"
        /\ HasDirectedCycle(dg) => (ret.err = "ClosedLoops" /\ ret.passes = 0)
        /\ ~HasDirectedCycle(dg) =>
              /\ ret.err = "none"
              /\ ret.passes = dg.N
              /\ IsPermutationOf(ret.order, dg.fields)

\* get_init_order went through four passes on a graph with a chain of
\* three dependencies.
C29_Witness ==
    /\ ret.op = "get_init_order"
    /\ ret.passes = 4
    /\ Edges(dg) = {<<"a", "b">>, <<"b", "c">>, <<"c", "d">>}

(***************************************************************************)
(* Further properties of the generated FitSpec.                            *)
(***************************************************************************)
\* C24: in every generated specification the fitting parameters, the
\* const fields and the same-as fields together are as many as
\* special_param_count says, and fitting_param_count is the length of
\* fitting_params.
C24_ParamCounts ==
    fitspec.generated =>
        /\ Len(fitspec.fitting_params) + Cardinality(ConstFields(clss))
              + Cardinality(SameAsFields(clss)) = fitspec.special_param_count
        /\ fitspec.fitting_param_count = Len(fitspec.fitting_params)
        /\ fitspec.special_param_count = Len(InitFields(clss))

\* A specification was generated for a dataclass with a fitting parameter,
\* a const field and a same-as field.
C24_Witness ==
    /\ fitspec.generated
    /\ Len(fitspec.fitting_params) = 1
    /\ Cardinality(ConstFields(clss)) = 1
    /\ Cardinality(SameAsFields(clss)) = 1

\* The value the declaration of a fitting field gives it in the default
\* instance.
DeclaredDefaultValue(f) ==
    IF f.kind = "Bounded" THEN resolve_default(f, f.has_default, f.default)
    ELSE IF f.has_default THEN f.default ELSE 0

\* The dataclass with the fields a, regular without default, b = same_as(a)
\* and c = const(7).
ExampleClass ==
    <<PlainField("a", TRUE), SameAsFieldOf("b", "a"), ConstFieldOf("c", 7 * One)>>

\* C26: in the default instance of a dataclass every regular field has its
\* declared default, 0.0 when it declares none, and every bounded field has
\* the value resolve_default gives for its declared default; for the fields
\* a regular, b = same_as(a), c = const(7) the default instance has a = 0.0,
\* b = 0.0 and c = 7, and fitting_params is [a].
C26_DefaultInstanceValues ==
    /\ (res.op = "create_default_fit_instance" /\ res.err = "none") =>
          \A f \in Range(InitFields(clss)) :
              f.kind \in {"Plain", "Regular", "Bounded"} =>
                  res.instance[f.name] = DeclaredDefaultValue(f)
    /\ (res.op = "create_default_fit_instance" /\ clss = ExampleClass) =>
          /\ res.err = "none"
          /\ res.instance = [n \in {"a", "b", "c"} |->
                                IF n = "c" THEN 7 * One ELSE 0]
          /\ fitspec.fitting_params = <<"a">>

\* The default instance was returned for a dataclass with a regular field
\* that declares a default, a bounded field and a regular field without
\* default.
C26_Witness ==
    /\ res.op = "create_default_fit_instance"
    /\ res.err = "none"
    /\ \E f \in Range(InitFields(clss)) : f.kind = "Regular" /\ f.has_default
    /\ \E f \in Range(InitFields(clss)) : f.kind = "Bounded"
    /\ \E f \in Range(InitFields(clss)) : f.kind = "Plain" /\ ~f.has_default

\* The default instance of the example dataclass was returned.
C26_ExampleReached ==
    /\ res.op = "create_default_fit_instance"
    /\ clss = ExampleClass

(***************************************************************************)
(* _spec_registry.py: the cache of the generated specifications.  The      *)
(* registry is a dict keyed by the type; a type is identified with its     *)
(* declaration.  The keys are held weakly: the collection of a type that   *)
(* is referenced nowhere else is not part of the model.                    *)
(***************************************************************************)
\* The largest number of times the specification of one type is generated
\* between two calls of clear_cache.
MaxGenerations == 2

\* _StoredFitSpec.pin: every field of the stored FitSpecBase is copied into
\* a FitSpec that holds the type.
pin(self, cls) == [clss |-> cls] @@ self

\* Mutant: a specification that was generated is not stored.
get_fit_spec_not_stored(reg, t) ==
    IF t \in DOMAIN reg
    THEN [registry |-> reg, err |-> "none", result |-> pin(reg[t], t),
          generated |-> FALSE]
    ELSE LET fs == generate(t)
         IN IF ~fs.generated
            THEN [registry |-> reg, err |-> fs.err, result |-> NoFitSpec,
                  generated |-> TRUE]
            ELSE [registry |-> reg, err |-> "none",
                  result |-> pin(fs, t), generated |-> TRUE]

\* get_fit_spec(t).  "generated" tells whether the call went through the
\* KeyError branch and ran _StoredFitSpec.generate(t); an exception of
\* generate leaves the function before the assignment to the registry.
get_fit_spec(reg, t) ==
    IF t \in DOMAIN reg
    THEN [registry |-> reg, err |-> "none", result |-> pin(reg[t], t),
          generated |-> FALSE]
    ELSE LET fs == generate(t)
         IN IF ~fs.generated
            THEN [registry |-> reg, err |-> fs.err, result |-> NoFitSpec,
                  generated |-> TRUE]
            ELSE [registry |-> DictSet(reg, t, fs), err |-> "none",
                  result |-> pin(fs, t), generated |-> TRUE]

\* clear_cache()
clear_cache(reg) ==
    [registry |-> EmptyRegistry, num_entries |-> Cardinality(DOMAIN reg)]

\* The types get_fit_spec is called with: three whose specification is
\* generated, one with a cycle of same-as fields and one with a same-as
\* field naming no field, whose generation raises.
RegistryTypes ==
    {ExampleClass,
     <<BoundedFieldOf("a", 0, 2 * One, FALSE, 0), RegularFieldOf("b", 2 * One)>>,
     <<SameAsFieldOf("a", "b"), PlainField("b", TRUE)>>,
     <<SameAsFieldOf("a", "b"), SameAsFieldOf("b", "c"), SameAsFieldOf("c", "a")>>,
     <<SameAsFieldOf("a", UnknownName)>>}

\* How often the specification of t was generated since the last
\* clear_cache.
Runs(t) == IF t \in DOMAIN hist.runs THEN hist.runs[t] ELSE 0

RegistryInit ==
    /\ dg = DepGraphNew(<<>>)
    /\ ret = NoCall
    /\ clss = NoClass
    /\ fitspec = NoFitSpec
    /\ res = NoFitCall
    /\ bfield = NoBoundedField
    /\ bret = NoFieldCall
    /\ calls = NoCalls
    /\ registry = EmptyRegistry
    /\ rret = NoRegistryCall
    /\ hist = NoHistory

\* hist records, since the last clear_cache, the number of runs of generate
\* for each type, the types a call of get_fit_spec succeeded for and the
\* specification the generating call returned.
GetFitSpec(t) ==
    LET r == get_fit_spec(registry, t) IN
    /\ r.generated => Runs(t) < MaxGenerations
    /\ registry' = r.registry
    /\ rret' = [op |-> "get_fit_spec", err |-> r.err, t |-> t,
                result |-> r.result, generated |-> r.generated]
    /\ hist' = [runs |-> IF r.generated
                         THEN DictSet(hist.runs, t, Runs(t) + 1)
                         ELSE hist.runs,
                succeeded |-> IF r.err = "none"
                              THEN hist.succeeded \cup {t}
                              ELSE hist.succeeded,
                origin |-> IF r.generated /\ r.err = "none"
                           THEN DictSet(hist.origin, t, r.result)
                           ELSE hist.origin]
    /\ UNCHANGED <<dg, ret, clss, fitspec, res, bfield, bret, calls>>

ClearCache ==
    LET r == clear_cache(registry) IN
    /\ registry' = r.registry
    /\ rret' = [op |-> "clear_cache", err |-> "none",
                num_entries |-> r.num_entries]
    /\ hist' = NoHistory
    /\ UNCHANGED <<dg, ret, clss, fitspec, res, bfield, bret, calls>>

RegistryNext ==
    \/ \E t \in RegistryTypes : GetFitSpec(t)
    \/ ClearCache

SpecRegistry == RegistryInit /\ [][RegistryNext]_vars

(***************************************************************************)
(* Properties of the registry.                                             *)
(***************************************************************************)
\* The registry holds an entry for a type exactly when a call of
\* get_fit_spec for it succeeded since the last clear_cache, and a call
\* returns the specification the generating call returned.
RegistryTracksSuccess ==
    /\ DOMAIN registry = hist.succeeded
    /\ (rret.op = "get_fit_spec" /\ rret.err = "none") =>
          /\ rret.t \in DOMAIN registry
          /\ rret.result = hist.origin[rret.t]
          /\ rret.result = pin(generate(rret.t), rret.t)
    /\ (rret.op = "get_fit_spec" /\ rret.err # "none") =>
          rret.t \notin DOMAIN registry

\* A call of get_fit_spec whose generation raises leaves the registry as it
\* was.
FailureStoresNothing ==
    \A t \in RegistryTypes :
        (GetFitSpec(t) /\ rret'.err # "none") => registry' = registry

\* C30, as stated: the registry holds an entry for a type exactly when a
\* get_fit_spec for it succeeded since the last clear_cache; a call whose
\* generation raises stores nothing and leaves the other entries unchanged;
\* generation runs at most once per type between two calls of clear_cache;
\* a call served from the cache returns the specification the generating
\* call returned.
C30_AsStated ==
    /\ [](RegistryTracksSuccess /\ \A t \in RegistryTypes : Runs(t) <= 1)
    /\ [][FailureStoresNothing]_vars

\* C30, amended: as above, but generation runs at most once between two
\* calls of clear_cache for a type whose generation succeeds; for a type
\* whose generation raises, every call of get_fit_spec runs it again.
C30_RegistryTracksSuccess ==
    /\ [](/\ RegistryTracksSuccess
          /\ \A t \in DOMAIN registry : Runs(t) = 1
          /\ (rret.op = "get_fit_spec" /\ rret.err # "none") => rret.generated)
    /\ [][FailureStoresNothing]_vars

\* A call of get_fit_spec was served from a cache of two entries, after the
\* generation for another type was run twice and raised.
C30_Witness ==
    /\ rret.op = "get_fit_spec"
    /\ rret.err = "none"
    /\ ~rret.generated
    /\ Cardinality(DOMAIN registry) = 2
    /\ \E t \in RegistryTypes : t \notin DOMAIN registry /\ Runs(t) = 2

(***************************************************************************)
(* Concurrent calls of the methods of one FitSpec.  Every thread runs one  *)
(* call at a time; its frame holds the arguments and the local variables   *)
(* of the call.  A step of a thread is one evaluation of a condition or    *)
(* one pass of a loop of the method; the steps of the threads interleave   *)
(* in any order.  The step of a method is handed the specification and     *)
(* returns it with the frame: what the method leaves of self.              *)
(***************************************************************************)
\* The frame of a call that was just made.  "array" is the argument array
\* of array_to_instance and the argument out of instance_to_array, "dict"
\* the local params or kwargs.
NewFrame(op, pc, instance, array) ==
    [op |-> op, pc |-> pc, k |-> 1, instance |-> instance, array |-> array,
     dict |-> EmptyDict, err |-> "none", result |-> EmptyDict]

\* The call returns or raises.
Done(f, err, result) == [f EXCEPT !.pc = "done", !.err = err, !.result = result]

\* create_default_fit_instance: one pass of the loop over
\* zip(init_order, def_res), or the call of the constructor.
DefaultInstanceStep(self, t, f) ==
    IF f.pc = "loop"
    THEN IF f.k > Len(self.init_order) \/ f.k > Len(self.default_resolvers)
         THEN [self |-> self, frame |-> [f EXCEPT !.pc = "construct"]]
         ELSE LET v == ResolverGet(self.default_resolvers[f.k], f.dict)
              IN IF v.err # "none"
                 THEN [self |-> self, frame |-> Done(f, v.err, EmptyDict)]
                 ELSE [self  |-> self,
                       frame |-> [f EXCEPT
                                    !.dict = DictSet(@, self.init_order[f.k], v.value),
                                    !.k = f.k + 1]]
    ELSE LET c == Construct(t, f.dict)
         IN [self |-> self, frame |-> Done(f, c.err, c.instance)]

\* instance_to_array: the test of the shape, or one pass of the loop over
\* enumerate(self.fitting_params).
InstanceToArrayStep(self, f) ==
    IF f.pc = "shape"
    THEN IF Len(f.array) # self.fitting_param_count
         THEN [self |-> self, frame |-> Done(f, "ShapeMismatch", f.array)]
         ELSE [self |-> self, frame |-> [f EXCEPT !.pc = "loop"]]
    ELSE IF f.k > Len(self.fitting_params)
         THEN [self |-> self, frame |-> Done(f, "none", f.array)]
         ELSE IF self.fitting_params[f.k] \notin DOMAIN f.instance
         THEN [self |-> self, frame |-> Done(f, "AttributeError", f.array)]
         ELSE [self  |-> self,
               frame |-> [f EXCEPT
                            !.array[f.k] = f.instance[self.fitting_params[f.k]],
                            !.k = f.k + 1]]

\* Mutant: kwargs is kept as an attribute of the specification.
ArrayToInstanceStep_kwargs_on_self(self, t, f) ==
    IF f.pc = "shape"
    THEN IF Len(f.array) # self.fitting_param_count
         THEN [self |-> self, frame |-> Done(f, "ShapeMismatch", EmptyDict)]
         ELSE [self  |-> [kwargs |-> EmptyDict] @@ self,
               frame |-> [f EXCEPT !.pc = "seed"]]
    ELSE IF f.pc = "seed"
    THEN IF f.k > Len(self.fitting_params)
         THEN [self |-> self, frame |-> [f EXCEPT !.pc = "deps", !.k = 1]]
         ELSE [self  |-> [kwargs |-> DictSet(self.kwargs, self.fitting_params[f.k],
                                             f.array[f.k])] @@ self,
               frame |-> [f EXCEPT !.k = f.k + 1]]
    ELSE IF f.pc = "deps"
    THEN IF f.k > Len(self.dep_resolvers)
         THEN [self |-> self, frame |-> [f EXCEPT !.pc = "construct"]]
         ELSE LET v == ResolverGet(self.dep_resolvers[f.k], self.kwargs)
              IN IF v.err # "none"
                 THEN [self |-> self, frame |-> Done(f, v.err, EmptyDict)]
                 ELSE [self  |-> [kwargs |-> DictSet(self.kwargs,
                                                     self.dep_resolvers[f.k].target,
                                                     v.value)] @@ self,
                       frame |-> [f EXCEPT !.k = f.k + 1]]
    ELSE LET c == Construct(t, self.kwargs)
         IN [self |-> self, frame |-> Done(f, c.err, c.instance)]

\* array_to_instance: the test of the length, one pass of the loop over
\* enumerate(self.fitting_params), one pass of the loop over
\* self.dep_resolvers, or the call of the constructor.
ArrayToInstanceStep(self, t, f) ==
    IF f.pc = "shape"
    THEN IF Len(f.array) # self.fitting_param_count
         THEN [self |-> self, frame |-> Done(f, "ShapeMismatch", EmptyDict)]
         ELSE [self |-> self, frame |-> [f EXCEPT !.pc = "seed"]]
    ELSE IF f.pc = "seed"
    THEN IF f.k > Len(self.fitting_params)
         THEN [self |-> self, frame |-> [f EXCEPT !.pc = "deps", !.k = 1]]
         ELSE [self  |-> self,
               frame |-> [f EXCEPT
                            !.dict = DictSet(@, self.fitting_params[f.k],
                                             f.array[f.k]),
                            !.k = f.k + 1]]
    ELSE IF f.pc = "deps"
    THEN IF f.k > Len(self.dep_resolvers)
         THEN [self |-> self, frame |-> [f EXCEPT !.pc = "construct"]]
         ELSE LET v == ResolverGet(self.dep_resolvers[f.k], f.dict)
              IN IF v.err # "none"
                 THEN [self |-> self, frame |-> Done(f, v.err, EmptyDict)]
                 ELSE [self  |-> self,
                       frame |-> [f EXCEPT
                                    !.dict = DictSet(@, self.dep_resolvers[f.k].target,
                                                     v.value),
                                    !.k = f.k + 1]]
    ELSE LET c == Construct(t, f.dict)
         IN [self |-> self, frame |-> Done(f, c.err, c.instance)]

\* The next step of the call of the frame f.
MethodStep(self, t, f) ==
    IF f.op = "create_default_fit_instance" THEN DefaultInstanceStep(self, t, f)
    ELSE IF f.op = "instance_to_array" THEN InstanceToArrayStep(self, f)
    ELSE ArrayToInstanceStep(self, t, f)

\* The dataclasses whose FitSpec the threads share: the example, one with a
\* bounded and a regular field, and one whose same-as field is declared
\* after its target.
ConcurrentClasses ==
    {ExampleClass,
     <<BoundedFieldOf("a", 0, 2 * One, FALSE, 0), RegularFieldOf("b", 2 * One)>>,
     <<PlainField("a", TRUE), PlainField("b", TRUE), SameAsFieldOf("c", "b")>>}

ConcurrentInit ==
    /\ dg = DepGraphNew(<<>>)
    /\ ret = NoCall
    /\ clss \in ConcurrentClasses
    /\ fitspec = NoFitSpec
    /\ res = NoFitCall
    /\ bfield = NoBoundedField
    /\ bret = NoFieldCall
    /\ calls = NoCalls
    /\ registry = EmptyRegistry
    /\ rret = NoRegistryCall
    /\ hist = NoHistory

\* The specification is generated once, before any thread calls it.
GenerateShared ==
    /\ ~fitspec.generated
    /\ Generate

\* A thread without a running call makes one.
CallCreateDefaultFitInstance(th) ==
    /\ fitspec.generated
    /\ calls[th].pc = "idle"
    /\ calls' = [calls EXCEPT ![th] =
                    NewFrame("create_default_fit_instance", "loop", EmptyDict, <<>>)]
    /\ UNCHANGED <<dg, ret, clss, fitspec, res, bfield, bret, registry, rret, hist>>

CallInstanceToArray(th, instance, out) ==
    /\ fitspec.generated
    /\ calls[th].pc = "idle"
    /\ calls' = [calls EXCEPT ![th] =
                    NewFrame("instance_to_array", "shape", instance, out)]
    /\ UNCHANGED <<dg, ret, clss, fitspec, res, bfield, bret, registry, rret, hist>>

CallArrayToInstance(th, array) ==
    /\ fitspec.generated
    /\ calls[th].pc = "idle"
    /\ calls' = [calls EXCEPT ![th] =
                    NewFrame("array_to_instance", "shape", EmptyDict, array)]
    /\ UNCHANGED <<dg, ret, clss, fitspec, res, bfield, bret, registry, rret, hist>>

\* A thread takes the next step of its call.
Step(th) ==
    /\ calls[th].pc \notin {"idle", "done"}
    /\ LET r == MethodStep(fitspec, clss, calls[th])
       IN /\ fitspec' = r.self
          /\ calls' = [calls EXCEPT ![th] = r.frame]
    /\ UNCHANGED <<dg, ret, clss, res, bfield, bret, registry, rret, hist>>

\* The caller has taken the outcome of the call.
Return(th) ==
    /\ calls[th].pc = "done"
    /\ calls' = [calls EXCEPT ![th] = IdleFrame]
    /\ UNCHANGED <<dg, ret, clss, fitspec, res, bfield, bret, registry, rret, hist>>

ConcurrentNext ==
    \/ GenerateShared
    \/ \E th \in Threads : CallCreateDefaultFitInstance(th)
    \/ \E th \in Threads, instance \in Instances(clss), out \in EmptyArrays :
          CallInstanceToArray(th, instance, out)
    \/ \E th \in Threads, array \in Arrays : CallArrayToInstance(th, array)
    \/ \E th \in Threads : Step(th)
    \/ \E th \in Threads : Return(th)

SpecConcurrent == ConcurrentInit /\ [][ConcurrentNext]_vars

(***************************************************************************)
(* Properties of the concurrent calls.                                     *)
(***************************************************************************)
\* The outcome of the call of a frame, and the outcome of the same call
\* run alone, from its first to its last step without another thread.
OutcomeOf(f) == [err |-> f.err, result |-> f.result]

OutcomeAlone(self, t, f) ==
    IF f.op = "create_default_fit_instance"
    THEN LET r == create_default_fit_instance(self, t)
         IN [err |-> r.err, result |-> r.instance]
    ELSE IF f.op = "instance_to_array"
    THEN LET r == instance_to_array(self, f.instance,
                                    [k \in 1..Len(f.array) |-> 0])
         IN [err |-> r.err, result |-> r.out]
    ELSE LET r == array_to_instance(self, t, f.array)
         IN [err |-> r.err, result |-> r.instance]

\* C21: create_default_fit_instance, instance_to_array and
\* array_to_instance never change the generated specification, and under
\* every interleaving of concurrent calls on it, each with an instance and
\* an array of its own, every call has the outcome it has when run alone.
C21_ConcurrentCallsAsAlone ==
    fitspec.generated =>
        /\ fitspec = generate(clss)
        /\ \A th \in Threads :
              calls[th].pc = "done" =>
                  OutcomeOf(calls[th]) = OutcomeAlone(fitspec, clss, calls[th])

\* A call of array_to_instance has returned an instance while the call of
\* the other thread, with another array, is between its two loops.
C21_Witness ==
    /\ calls[1].op = "array_to_instance"
    /\ calls[1].pc = "done"
    /\ calls[1].err = "none"
    /\ calls[2].op = "array_to_instance"
    /\ calls[2].pc = "deps"
    /\ calls[2].array # calls[1].array

====
